---- MODULE Spec2Model ----
(***************************************************************************)
(* A model of scheduler.py: the Employee preference normalisation, the     *)
(* capacity policy compute_target_per_shift and the three phases of        *)
(* schedule(), one action per loop iteration of the source.                *)
(***************************************************************************)
EXTENDS Integers, Sequences, FiniteSets, TLC

----------------------------------------------------------------------------
(* Module constants of scheduler.py *)

DAYS == <<"Mon", "Tue", "Wed", "Thu", "Fri", "Sat", "Sun">>

SHIFTS == <<"morning", "afternoon", "evening">>

DaySet == {DAYS[k] : k \in 1..Len(DAYS)}

ShiftSet == {SHIFTS[k] : k \in 1..Len(SHIFTS)}

----------------------------------------------------------------------------
(* Bounds of the model *)

\* largest roster whose preferences and random draws are explored exhaustively
MaxEmployees == 2

\* largest max_days_per_week explored with those rosters
MaxCap == 2

\* number of seeds a repeated call can be given
NumSeeds == 2

\* number of schedule() calls made on one roster
MaxCalls == 2

\* largest roster and cap compute_target_per_shift is applied to on its own
MaxTargetEmployees == 30

MaxTargetCap == 8

----------------------------------------------------------------------------
(* Sequence helpers *)

RECURSIVE SeqFilterIn(_, _)
\* [s for s in seq if s in set]
SeqFilterIn(seq, set) ==
    IF seq = <<>> THEN <<>>
    ELSE IF Head(seq) \in set THEN <<Head(seq)>> \o SeqFilterIn(Tail(seq), set)
    ELSE SeqFilterIn(Tail(seq), set)

Range(seq) == {seq[k] : k \in 1..Len(seq)}

Min(S) == CHOOSE x \in S : \A y \in S : x <= y

Max2(a, b) == IF a >= b THEN a ELSE b

----------------------------------------------------------------------------
(* Employee.__init__: raw per-day preferences and their normalisation.     *)
(* A raw value is tagged with its Python type: "str", "list" or "other";   *)
(* a day missing from the raw dict is a day outside the DOMAIN.            *)

RawStr(s) == [kind |-> "str", val |-> <<s>>]

RawList(l) == [kind |-> "list", val |-> l]

RawOther == [kind |-> "other", val |-> <<>>]

\* lines 13-20: one day's normalised preference list
NormalizePref(raw, day) ==
    IF day \notin DOMAIN raw THEN <<>>
    ELSE IF raw[day].kind = "str" THEN <<raw[day].val[1]>>
    ELSE IF raw[day].kind = "list" THEN raw[day].val
    ELSE <<>>

\* Employee(name, weekly_prefs): the immutable part of the object
EmployeeInit(name, raw) ==
    [name |-> name, weekly_prefs |-> [day \in DaySet |-> NormalizePref(raw, day)]]

\* Employee.ranked_prefs
ranked_prefs(emp, day) ==
    IF day \in DOMAIN emp.weekly_prefs THEN emp.weekly_prefs[day] ELSE <<>>

----------------------------------------------------------------------------
(* Capacity policy *)

\* mutant: the remainder taken for the quotient
compute_target_per_shift_Mod(num_employees, max_days) ==
    LET total_assignable == num_employees * max_days
        ideal == total_assignable % (Len(DAYS) * Len(SHIFTS))
    IN  Max2(2, ideal)

\* lines 27-31
compute_target_per_shift(num_employees, max_days) ==
    LET total_assignable == num_employees * max_days
        ideal == total_assignable \div (Len(DAYS) * Len(SHIFTS))
    IN  Max2(2, ideal)

----------------------------------------------------------------------------
(* random.Random: shuffle and choice as CPython computes them from the     *)
(* generator's draws.  randbelow(k) yields a number of 0..k-1.             *)

Swap(x, a, b) == [x EXCEPT ![a] = x[b], ![b] = x[a]]

RECURSIVE ShuffleFrom(_, _, _)
\* for i in reversed(range(1, len(x))): j = randbelow(i+1); x[i], x[j] = x[j], x[i]
\* with js[t] the t-th draw and i (0-based) = Len(x) - t
\* (the swapped list is bound as a value, y, before the next iteration)
ShuffleFrom(x, js, t) ==
    IF t > Len(js) THEN x
    ELSE CHOOSE r \in {ShuffleFrom(y, js, t + 1) : y \in {Swap(x, (Len(x) - t) + 1, js[t] + 1)}} : TRUE

Shuffle(x, js) == ShuffleFrom(x, js, 1)

\* the draws a shuffle of a list of length len may consume
DrawSeqs(len) ==
    IF len <= 1 THEN {<<>>}
    ELSE {js \in [1..(len - 1) -> 0..(len - 1)] : \A t \in 1..(len - 1) : js[t] <= len - t}

----------------------------------------------------------------------------
(* Inputs of a schedule() call *)

Names == <<"Alice", "Bob", "Carol", "Dan", "Eva", "Frank", "Grace", "Hank", "Ivy", "Jack">>

\* the same ranked list on every day (lines 142-145, 148-151)
RawEveryDay(l) == [day \in DaySet |-> RawList(l)]

\* raw preference dicts offered to Employee(...): absent days, single
\* strings, ranked lists, a value that is neither, and a shift name that
\* is not one of SHIFTS
RawChoices ==
    << [day \in {} |-> RawOther],
       RawEveryDay(<<"morning", "afternoon", "evening">>),
       RawEveryDay(<<"morning">>),
       [day \in {"Mon", "Tue", "Wed"} |->
          IF day = "Mon" THEN RawStr("morning")
          ELSE IF day = "Tue" THEN RawList(<<"evening", "afternoon">>)
          ELSE RawOther],
       [day \in {"Tue"} |-> RawStr("night")] >>

\* the choices of raw preferences for a roster of n employees; rosters that
\* differ only by a permutation of the employees are taken once
RawPicks(n) ==
    {c \in [1..n -> 1..Len(RawChoices)] : \A k \in 1..n : k > 1 => c[k - 1] <= c[k]}

Roster(n, c) == [k \in 1..n |-> EmployeeInit(Names[k], RawChoices[c[k]])]

\* the bundled sample roster (lines 141-152)
SampleRaw ==
    << RawEveryDay(<<"morning", "afternoon", "evening">>),
       RawEveryDay(<<"morning", "evening", "afternoon">>),
       RawEveryDay(<<"afternoon", "morning", "evening">>),
       RawEveryDay(<<"evening", "afternoon", "morning">>),
       [day \in {"Mon", "Tue", "Wed", "Thu", "Fri"} |->
          RawStr(CASE day = "Mon" -> "morning" [] day = "Tue" -> "afternoon"
                   [] day = "Wed" -> "evening" [] day = "Thu" -> "morning"
                   [] OTHER -> "afternoon")],
       [day \in {"Mon", "Tue", "Wed", "Thu", "Fri"} |->
          RawList(CASE day = "Mon" -> <<"evening", "afternoon">>
                    [] day = "Tue" -> <<"morning">>
                    [] day = "Wed" -> <<"morning", "evening">>
                    [] day = "Thu" -> <<"afternoon">>
                    [] OTHER -> <<"evening">>)],
       RawEveryDay(<<"afternoon", "evening", "morning">>),
       RawEveryDay(<<"evening", "morning", "afternoon">>),
       RawEveryDay(<<"morning", "afternoon", "evening">>),
       RawEveryDay(<<"afternoon", "evening", "morning">>) >>

sample_employees == [k \in 1..Len(SampleRaw) |-> EmployeeInit(Names[k], SampleRaw[k])]

\* the values random.Random(42) returns to the successive randbelow calls
\* of the sample run (CPython's Mersenne Twister; nine per primary shuffle
\* of the ten employees, three per shuffle of four deferred employees)
Seed42Draws ==
    << 1, 0, 4, 1, 1, 1, 0, 2, 0,
       3, 0, 0,  1, 3, 3, 4, 4, 0, 1, 2, 1,
       1, 1, 1,  0, 2, 6, 2, 2, 1, 1, 1, 0,
       0, 1, 0,  5, 5, 4, 6, 0, 3, 0, 1, 0,
       2, 2, 1,  9, 3, 1, 0, 5, 1, 2, 0, 0,
       0, 1, 1,  7, 5, 2, 2, 2, 1, 2, 2, 0,
       1, 2, 0,  2, 7, 6, 2, 5, 4, 1, 2, 1 >>

\* thirteen employees without preferences: more than the six places a day
\* offers under a target of 2, and one more than two days offer
CrowdNames == Names \o <<"Kate", "Liam", "Mona">>

crowd_employees == [k \in 1..Len(CrowdNames) |-> EmployeeInit(CrowdNames[k], RawChoices[1])]

\* the values random.Random(7) returns to the successive randbelow calls of
\* schedule(crowd_employees, max_days_per_week=1, rng_seed=7): twelve per
\* primary shuffle, six for the seven employees deferred to Tuesday, one
\* for the two entries deferred to Wednesday
Seed7Draws ==
    << 5, 2, 6, 0, 1, 1, 2, 4, 0, 1, 0, 0,
       3, 3, 0, 1, 0, 1,  0, 9, 1, 3, 0, 6, 0, 1, 0, 1, 1, 1,
       0,  8, 1, 9, 4, 8, 2, 0, 4, 4, 1, 1, 0,
       8, 11, 1, 9, 0, 3, 3, 5, 4, 3, 1, 1,
       9, 7, 5, 4, 3, 2, 5, 1, 0, 2, 2, 1,
       5, 11, 7, 4, 1, 1, 4, 3, 1, 2, 0, 1,
       6, 0, 10, 1, 8, 5, 2, 5, 2, 3, 2, 1 >>

\* the generator's stream for a seed: the values recorded for seeds 42 and
\* 7, and otherwise a fixed arbitrary stream standing for the library's
RawDraw(seed, pos) ==
    IF seed = 42 /\ pos <= Len(Seed42Draws) THEN Seed42Draws[pos]
    ELSE IF seed = 7 /\ pos <= Len(Seed7Draws) THEN Seed7Draws[pos]
    ELSE ((seed + 3) * pos + seed) % 11

\* the rng_seed argument: a given number, or left open (any seed)
AnySeed == [given |-> FALSE, value |-> 0]

Seed(n) == [given |-> TRUE, value |-> n]

SmallSeeds == {Seed(n) : n \in 0..(NumSeeds - 1)}

\* a cap beyond the days of the week, which no employee reaches
LargeCap == 2 * Len(DAYS) + 1

\* rosters of up to MaxEmployees employees, every choice of raw
\* preferences, every cap up to MaxCap, any seed
FreeInputs ==
    { [employees |-> Roster(Len(c), c), max_days |-> m, rng_seed |-> AnySeed] :
         c \in UNION {RawPicks(n) : n \in 0..MaxEmployees}, m \in 0..MaxCap }

\* Scenario B of the specification: three employees under a cap of 5, any seed
ScenarioBInputs ==
    { [employees |-> Roster(3, c), max_days |-> 5, rng_seed |-> AnySeed] :
         c \in {<<1, 1, 1>>, <<2, 3, 4>>} }

\* a roster in which two employees carry the same name
DuplicateNameInput ==
    [employees |-> <<EmployeeInit("Alice", RawChoices[2]), EmployeeInit("Alice", RawChoices[3])>>,
     max_days |-> 2, rng_seed |-> AnySeed]

\* two employees under a cap that is never reached
LargeCapInput == [employees |-> Roster(2, <<1, 1>>), max_days |-> LargeCap, rng_seed |-> AnySeed]

\* the __main__ run: schedule(sample_employees, max_days_per_week=5, rng_seed=42)
SampleInput == [employees |-> sample_employees, max_days |-> 5, rng_seed |-> Seed(42)]

\* schedule(crowd_employees, max_days_per_week=1, rng_seed=7)
CrowdInput == [employees |-> crowd_employees, max_days |-> 1, rng_seed |-> Seed(7)]

Inputs ==
    FreeInputs \cup ScenarioBInputs
        \cup {DuplicateNameInput, LargeCapInput, SampleInput, CrowdInput}

\* the inputs of the first of several calls on one roster: the rosters of
\* FreeInputs under every small seed, and the sample run
RepeatInputs ==
    { [employees |-> inp.employees, max_days |-> inp.max_days, rng_seed |-> seed] :
         inp \in FreeInputs, seed \in SmallSeeds } \cup {SampleInput}

\* the inputs compute_target_per_shift is applied to on its own
TargetInputs ==
    { [employees |-> [k \in 1..n |-> EmployeeInit(Names[((k - 1) % Len(Names)) + 1], RawChoices[1])],
       max_days |-> m, rng_seed |-> AnySeed] :
         n \in 0..MaxTargetEmployees, m \in (0 - MaxTargetCap)..MaxTargetCap }

----------------------------------------------------------------------------
(* State of a schedule() call, and of the caller across calls *)

VARIABLES
    employees,          \* argument: the roster, name and weekly_prefs of each Employee
    max_days_per_week,  \* argument
    rng_seed,           \* argument
    days_worked,        \* emp.days_worked, by position in the roster
    assigned_days,      \* emp.assigned_days
    rng,
    target_per_shift,
    sched,
    conflict_queue,     \* defaultdict(list): only the keys created so far
    pc,                 \* position in schedule()
    d_idx,              \* index of the day being processed (0-based)
    s_idx,              \* index of the shift being topped up in phase 2
    deferred,           \* rest of the shuffled deferred list
    order,              \* rest of the shuffled primary order
    unmet,
    calls,              \* number of schedule() calls made on this roster
    at_entry,           \* the state of the employees when the current call began
    prev                \* arguments and result of the previous call

args == <<employees, max_days_per_week, rng_seed>>

emp_state == <<days_worked, assigned_days>>

locals == <<rng, target_per_shift, sched, conflict_queue, pc, d_idx, s_idx,
            deferred, order, unmet>>

\* what the caller keeps across calls
caller == <<calls, at_entry, prev>>

vars == <<args, emp_state, locals, caller>>

Emps == 1..Len(employees)

\* mutant: one generator shared by all calls and never re-seeded
NewRandom_Shared(seed) == [seeded |-> seed.given, seed |-> seed.value, pos |-> rng.pos]

\* line 38, rng = random.Random(rng_seed): the stream of the seed from its
\* start; with the seed left open every draw is possible
NewRandom(seed) == [seeded |-> seed.given, seed |-> seed.value, pos |-> 1]

\* line 21
FreshDaysWorked(emps) == [e \in 1..Len(emps) |-> 0]

\* line 22
FreshAssignedDays(emps) == [e \in 1..Len(emps) |-> {}]

\* lines 42-44
EmptySched == [d \in DaySet |-> [s \in ShiftSet |-> <<>>]]

NoPrev ==
    [calls |-> 0, max_days |-> 0, rng_seed |-> AnySeed,
     at_entry |-> [days_worked |-> <<>>, assigned_days |-> <<>>],
     result |-> [sched |-> EmptySched, unmet |-> <<>>, target |-> 0]]

\* the locals of schedule() before its first statement
NoLocals ==
    /\ rng = [seeded |-> FALSE, seed |-> 0, pos |-> 1]
    /\ target_per_shift = 0
    /\ sched = EmptySched
    /\ conflict_queue = <<>>
    /\ pc = "entry"
    /\ d_idx = 0
    /\ s_idx = 0
    /\ deferred = <<>>
    /\ order = <<>>
    /\ unmet = <<>>

\* schedule(inp.employees, inp.max_days, inp.rng_seed) is entered for the
\* first time, on freshly constructed employees
FirstCall(inp) ==
    /\ employees = inp.employees
    /\ max_days_per_week = inp.max_days
    /\ rng_seed = inp.rng_seed
    /\ days_worked = FreshDaysWorked(inp.employees)
    /\ assigned_days = FreshAssignedDays(inp.employees)
    /\ NoLocals
    /\ calls = 1
    /\ at_entry = [days_worked |-> FreshDaysWorked(inp.employees),
                   assigned_days |-> FreshAssignedDays(inp.employees)]
    /\ prev = NoPrev

Init == \E inp \in Inputs : FirstCall(inp)

InitRepeat == \E inp \in RepeatInputs : FirstCall(inp)

InitTarget == \E inp \in TargetInputs : FirstCall(inp)

----------------------------------------------------------------------------
(* Helpers of the allocator *)

Day(k) == DAYS[k + 1]

\* mutant: the skip test of line 79 fires one day early
Unavailable_Early(e, day) ==
    \/ days_worked[e] + 1 >= max_days_per_week
    \/ day \in assigned_days[e]

\* lines 48-51: the two employee-side tests of can_assign
Unavailable(e, day) ==
    \/ days_worked[e] >= max_days_per_week
    \/ day \in assigned_days[e]

\* mutant: the capacity test of lines 52-53 is missing
can_assign_NoCapacity(e, day, shift) ==
    /\ ~(days_worked[e] >= max_days_per_week)
    /\ ~(day \in assigned_days[e])

\* mutant: the capacity test of line 52 lets one name too many in, > for >=
can_assign_Over(e, day, shift) ==
    /\ ~(days_worked[e] >= max_days_per_week)
    /\ ~(day \in assigned_days[e])
    /\ ~(Len(sched[day][shift]) > target_per_shift)

\* can_assign (lines 47-54) for a shift that is a key of sched[day]
can_assign(e, day, shift) ==
    /\ ~(days_worked[e] >= max_days_per_week)
    /\ ~(day \in assigned_days[e])
    /\ ~(Len(sched[day][shift]) >= target_per_shift)

\* can_assign (line 52) raises KeyError: the employee-side tests pass and
\* sched[day][shift] is looked up with a shift that is no key of sched[day]
can_assign_raises(e, day, shift) ==
    /\ ~(days_worked[e] >= max_days_per_week)
    /\ ~(day \in assigned_days[e])
    /\ shift \notin DOMAIN sched[day]

\* line 64
open_shifts(e, day) == SelectSeq(SHIFTS, LAMBDA s : can_assign(e, day, s))

\* lines 66-67: the ranked preferences that are open, or else the open shifts
DeferredChoice(e, day) ==
    LET open == open_shifts(e, day)
        ranked == SeqFilterIn(ranked_prefs(employees[e], day), Range(open))
    IN  IF ranked # <<>> THEN ranked[1] ELSE open[1]

RECURSIVE FirstRanked(_, _, _)
\* lines 82-88: walk the ranked preferences; the outcome is the first
\* preference that is open ("assign"), a KeyError at the first preference
\* that is no shift ("raise"), or "none"
FirstRanked(e, day, prefs) ==
    IF prefs = <<>> THEN [kind |-> "none", shift |-> ""]
    ELSE IF can_assign_raises(e, day, Head(prefs)) THEN [kind |-> "raise", shift |-> Head(prefs)]
    ELSE IF Head(prefs) \in DOMAIN sched[day] /\ can_assign(e, day, Head(prefs))
         THEN [kind |-> "assign", shift |-> Head(prefs)]
    ELSE FirstRanked(e, day, Tail(prefs))

\* mutant: the fallback loop of lines 91-97 is missing
PrimaryChoice_NoFallback(e, day) ==
    FirstRanked(e, day, ranked_prefs(employees[e], day))

\* mutant: the ranked preferences are not consulted
PrimaryChoice_FixedOrder(e, day) ==
    LET open == open_shifts(e, day)
    IN  IF open # <<>> THEN [kind |-> "assign", shift |-> open[1]]
        ELSE [kind |-> "none", shift |-> ""]

\* lines 89-97: the ranked choice, else the first open shift in SHIFTS order
PrimaryChoice(e, day) ==
    LET r == FirstRanked(e, day, ranked_prefs(employees[e], day))
        open == open_shifts(e, day)
    IN  IF r.kind # "none" THEN r
        ELSE IF open # <<>> THEN [kind |-> "assign", shift |-> open[1]]
        ELSE r

\* sched[day][shift].append(emp.name)
SchedAppend(e, day, shift) ==
    [sched EXCEPT ![day][shift] = Append(@, employees[e].name)]

\* mutant: the counter is not incremented
DaysWorkedInc_Skip(e) == days_worked

\* emp.days_worked += 1
DaysWorkedInc(e) == [days_worked EXCEPT ![e] = @ + 1]

\* mutant: the day is not recorded
AssignedDaysAdd_Skip(e, day) == assigned_days

\* mutant: the set is overwritten, emp.assigned_days = {day}
AssignedDaysAdd_Replace(e, day) == [assigned_days EXCEPT ![e] = {day}]

\* emp.assigned_days.add(day)
AssignedDaysAdd(e, day) == [assigned_days EXCEPT ![e] = @ \cup {day}]

\* conflict_queue[k].append(emp) on a defaultdict(list)
QueueAppend(k, e) ==
    [q \in DOMAIN conflict_queue \cup {k} |->
        IF q = k
        THEN (IF k \in DOMAIN conflict_queue THEN Append(conflict_queue[k], e) ELSE <<e>>)
        ELSE conflict_queue[q]]

\* conflict_queue.get(d_idx, [])
QueueGet(k) == IF k \in DOMAIN conflict_queue THEN conflict_queue[k] ELSE <<>>

\* lines 106-109
candidates(day) ==
    SelectSeq([k \in 1..Len(employees) |-> k],
              LAMBDA e : days_worked[e] < max_days_per_week /\ day \notin assigned_days[e])

\* lines 113-114
pool(day) ==
    LET c == candidates(day)
        min_days == Min({days_worked[c[k]] : k \in 1..Len(c)})
    IN  SelectSeq(c, LAMBDA e : days_worked[e] = min_days)

RECURSIVE UnmetFrom_Le(_)
\* mutant: the test is <= 2
UnmetFrom_Le(k) ==
    IF k >= Len(DAYS) * Len(SHIFTS) THEN <<>>
    ELSE LET day == DAYS[(k \div Len(SHIFTS)) + 1]
             shift == SHIFTS[(k % Len(SHIFTS)) + 1]
         IN  (IF Len(sched[day][shift]) <= 2
              THEN << <<day, shift, Len(sched[day][shift])>> >>
              ELSE <<>>) \o UnmetFrom_Le(k + 1)

RECURSIVE UnmetFrom_Over(_)
\* mutant: the test is inverted, > 2
UnmetFrom_Over(k) ==
    IF k >= Len(DAYS) * Len(SHIFTS) THEN <<>>
    ELSE LET day == DAYS[(k \div Len(SHIFTS)) + 1]
             shift == SHIFTS[(k % Len(SHIFTS)) + 1]
         IN  (IF Len(sched[day][shift]) > 2
              THEN << <<day, shift, Len(sched[day][shift])>> >>
              ELSE <<>>) \o UnmetFrom_Over(k + 1)

RECURSIVE UnmetFrom(_)
\* lines 121-125: scan the slots, day by day and shift by shift, from the k-th on
UnmetFrom(k) ==
    IF k >= Len(DAYS) * Len(SHIFTS) THEN <<>>
    ELSE LET day == DAYS[(k \div Len(SHIFTS)) + 1]
             shift == SHIFTS[(k % Len(SHIFTS)) + 1]
         IN  (IF Len(sched[day][shift]) < 2
              THEN << <<day, shift, Len(sched[day][shift])>> >>
              ELSE <<>>) \o UnmetFrom(k + 1)

\* a shuffle of a list of length len makes len - 1 draws, none when empty
ShuffleDraws(len) == IF len <= 1 THEN 0 ELSE len - 1

\* the draws rng.shuffle can receive for a list of length len: those of
\* the stream of the seed, randbelow(i + 1) for i = len - 1 down to 1, or
\* any when the seed is open
shuffle_draws(len) ==
    IF rng.seeded
    THEN {[t \in 1..ShuffleDraws(len) |-> RawDraw(rng.seed, rng.pos + t - 1) % (len - t + 1)]}
    ELSE DrawSeqs(len)

\* the draw rng.choice can receive for a list of length len: randbelow(len)
choice_draws(len) ==
    IF rng.seeded THEN {RawDraw(rng.seed, rng.pos) % len} ELSE 0..(len - 1)

\* the generator after n draws
RngAfter(n) ==
    IF rng.seeded THEN [rng EXCEPT !.pos = @ + n] ELSE rng

----------------------------------------------------------------------------
(* Prologue *)

\* mutant: the call starts by resetting every employee, as a constructor would
Prologue_Reset ==
    /\ pc = "entry"
    /\ rng' = NewRandom(rng_seed)
    /\ target_per_shift' = compute_target_per_shift(Len(employees), max_days_per_week)
    /\ sched' = EmptySched
    /\ conflict_queue' = <<>>
    /\ pc' = "day_start"
    /\ days_worked' = FreshDaysWorked(employees)
    /\ assigned_days' = FreshAssignedDays(employees)
    /\ UNCHANGED <<args, d_idx, s_idx, deferred, order, unmet, caller>>

\* lines 38-45: the generator, the target, the empty schedule and queue
Prologue ==
    /\ pc = "entry"
    /\ rng' = NewRandom(rng_seed)
    /\ target_per_shift' = compute_target_per_shift(Len(employees), max_days_per_week)
    /\ sched' = EmptySched
    /\ conflict_queue' = <<>>
    /\ pc' = "day_start"
    /\ UNCHANGED <<args, emp_state, d_idx, s_idx, deferred, order, unmet, caller>>

----------------------------------------------------------------------------
(* Phase 1 *)

\* lines 59-60: fetch and shuffle the employees deferred to this day; the
\* list that get() returns is the queued list itself, shuffled in place
ShuffleDeferred ==
    /\ pc = "day_start"
    /\ \E js \in shuffle_draws(Len(QueueGet(d_idx))) :
           /\ deferred' = Shuffle(QueueGet(d_idx), js)
           /\ conflict_queue' =
                 IF d_idx \in DOMAIN conflict_queue
                 THEN [conflict_queue EXCEPT ![d_idx] = Shuffle(QueueGet(d_idx), js)]
                 ELSE conflict_queue
    /\ rng' = RngAfter(ShuffleDraws(Len(QueueGet(d_idx))))
    /\ pc' = "deferred_pass"
    /\ UNCHANGED <<args, emp_state, target_per_shift, sched, d_idx, s_idx,
                   order, unmet, caller>>

\* lines 61-73: one iteration of the deferred pass
DeferredStep ==
    /\ pc = "deferred_pass"
    /\ deferred # <<>>
    /\ LET e == Head(deferred)
           day == Day(d_idx)
       IN  IF open_shifts(e, day) # <<>>
           THEN /\ sched' = SchedAppend(e, day, DeferredChoice(e, day))
                /\ days_worked' = DaysWorkedInc(e)
                /\ assigned_days' = AssignedDaysAdd(e, day)
                /\ UNCHANGED conflict_queue
           ELSE /\ conflict_queue' =
                      IF d_idx + 1 < Len(DAYS) THEN QueueAppend(d_idx + 1, e) ELSE conflict_queue
                /\ UNCHANGED <<sched, days_worked, assigned_days>>
    /\ deferred' = Tail(deferred)
    /\ UNCHANGED <<args, rng, target_per_shift, pc, d_idx, s_idx, order, unmet, caller>>

\* lines 76-77: order = employees[:]; rng.shuffle(order)
ShufflePrimary ==
    /\ pc = "deferred_pass"
    /\ deferred = <<>>
    /\ \E js \in shuffle_draws(Len(employees)) :
           order' = Shuffle([k \in 1..Len(employees) |-> k], js)
    /\ rng' = RngAfter(ShuffleDraws(Len(employees)))
    /\ pc' = "primary_pass"
    /\ UNCHANGED <<args, emp_state, target_per_shift, sched, conflict_queue, d_idx, s_idx,
                   deferred, unmet, caller>>

\* lines 78-100: one iteration of the primary pass
PrimaryStep ==
    /\ pc = "primary_pass"
    /\ order # <<>>
    /\ LET e == Head(order)
           day == Day(d_idx)
           c == PrimaryChoice(e, day)
       IN  IF Unavailable(e, day)
           THEN UNCHANGED <<sched, days_worked, assigned_days, conflict_queue, pc>>
           ELSE IF c.kind = "raise"
           THEN /\ pc' = "raised"
                /\ UNCHANGED <<sched, days_worked, assigned_days, conflict_queue>>
           ELSE IF c.kind = "assign"
           THEN /\ sched' = SchedAppend(e, day, c.shift)
                /\ days_worked' = DaysWorkedInc(e)
                /\ assigned_days' = AssignedDaysAdd(e, day)
                /\ UNCHANGED <<conflict_queue, pc>>
           ELSE /\ conflict_queue' =
                      IF d_idx + 1 < Len(DAYS) THEN QueueAppend(d_idx + 1, e) ELSE conflict_queue
                /\ UNCHANGED <<sched, days_worked, assigned_days, pc>>
    /\ order' = Tail(order)
    /\ UNCHANGED <<args, rng, target_per_shift, d_idx, s_idx, deferred, unmet, caller>>

\* line 57: the for loop moves to the next day, or phase 1 ends
NextDay ==
    /\ pc = "primary_pass"
    /\ order = <<>>
    /\ IF d_idx + 1 < Len(DAYS)
       THEN /\ d_idx' = d_idx + 1
            /\ pc' = "day_start"
       ELSE /\ d_idx' = 0
            /\ pc' = "phase2"
    /\ UNCHANGED <<args, emp_state, rng, target_per_shift, sched, conflict_queue, s_idx,
                   deferred, order, unmet, caller>>

----------------------------------------------------------------------------
(* Phase 2 *)

\* lines 103-104: the slot scanned after (d_idx, s_idx), or the end of phase 2
LeaveSlot ==
    IF s_idx + 1 < Len(SHIFTS)
    THEN /\ s_idx' = s_idx + 1
         /\ UNCHANGED <<pc, d_idx>>
    ELSE IF d_idx + 1 < Len(DAYS)
    THEN /\ s_idx' = 0
         /\ d_idx' = d_idx + 1
         /\ UNCHANGED pc
    ELSE /\ pc' = "phase3"
         /\ UNCHANGED <<d_idx, s_idx>>

\* mutant: `continue' for `break' at line 111, so that a slot below 2
\* with no candidate is tested again and again
Phase2Step_Continue ==
    /\ pc = "phase2"
    /\ LET day == Day(d_idx)
           shift == SHIFTS[s_idx + 1]
       IN  IF Len(sched[day][shift]) < 2 /\ candidates(day) # <<>>
           THEN /\ \E j \in choice_draws(Len(pool(day))) :
                      LET e == pool(day)[j + 1]
                      IN  /\ sched' = SchedAppend(e, day, shift)
                          /\ days_worked' = DaysWorkedInc(e)
                          /\ assigned_days' = AssignedDaysAdd(e, day)
                /\ rng' = RngAfter(1)
                /\ UNCHANGED <<pc, d_idx, s_idx>>
           ELSE IF Len(sched[day][shift]) < 2
           THEN UNCHANGED <<pc, d_idx, s_idx, sched, days_worked, assigned_days, rng>>
           ELSE /\ LeaveSlot
                /\ UNCHANGED <<sched, days_worked, assigned_days, rng>>
    /\ UNCHANGED <<args, target_per_shift, conflict_queue, deferred, order, unmet, caller>>

\* lines 105-118: one test of the while condition of slot (d_idx, s_idx),
\* with the body it guards, or the move to the next slot
Phase2Step ==
    /\ pc = "phase2"
    /\ LET day == Day(d_idx)
           shift == SHIFTS[s_idx + 1]
       IN  IF Len(sched[day][shift]) < 2 /\ candidates(day) # <<>>
           THEN /\ \E j \in choice_draws(Len(pool(day))) :
                      LET e == pool(day)[j + 1]
                      IN  /\ sched' = SchedAppend(e, day, shift)
                          /\ days_worked' = DaysWorkedInc(e)
                          /\ assigned_days' = AssignedDaysAdd(e, day)
                /\ rng' = RngAfter(1)
                /\ UNCHANGED <<pc, d_idx, s_idx>>
           ELSE /\ LeaveSlot
                /\ UNCHANGED <<sched, days_worked, assigned_days, rng>>
    /\ UNCHANGED <<args, target_per_shift, conflict_queue, deferred, order, unmet, caller>>

----------------------------------------------------------------------------
(* Phase 3 and return *)

\* lines 121-127
Phase3 ==
    /\ pc = "phase3"
    /\ unmet' = UnmetFrom(0)
    /\ pc' = "returned"
    /\ UNCHANGED <<args, emp_state, rng, target_per_shift, sched, conflict_queue, d_idx,
                   s_idx, deferred, order, caller>>

----------------------------------------------------------------------------
(* The caller: further calls on the same roster *)

\* what the caller has in hand of the call that returned
Returned ==
    [calls |-> calls, max_days |-> max_days_per_week, rng_seed |-> rng_seed,
     at_entry |-> at_entry,
     result |-> [sched |-> sched, unmet |-> unmet, target |-> target_per_shift]]

\* the seeds a further call is given: the same again, or a small one
AgainSeeds == SmallSeeds \cup {rng_seed}

\* the frame of schedule() is gone; a new one is entered with arguments m, seed
Reenter(m, seed) ==
    /\ employees' = employees
    /\ max_days_per_week' = m
    /\ rng_seed' = seed
    /\ pc' = "entry"
    /\ target_per_shift' = 0
    /\ sched' = EmptySched
    /\ conflict_queue' = <<>>
    /\ d_idx' = 0
    /\ s_idx' = 0
    /\ deferred' = <<>>
    /\ order' = <<>>
    /\ unmet' = <<>>
    /\ UNCHANGED rng
    /\ calls' = calls + 1
    /\ prev' = Returned

\* schedule(employees, m, seed) once more on the same Employee objects:
\* nothing in schedule() resets days_worked or assigned_days
CallAgain ==
    /\ pc = "returned"
    /\ calls < MaxCalls
    /\ \E m \in 0..MaxCap, seed \in AgainSeeds : Reenter(m, seed)
    /\ UNCHANGED <<days_worked, assigned_days>>
    /\ at_entry' = [days_worked |-> days_worked, assigned_days |-> assigned_days]

\* schedule(...) once more on a roster built anew from the same raw
\* preferences: Employee.__init__ (lines 21-22) runs again
CallFresh ==
    /\ pc = "returned"
    /\ calls < MaxCalls
    /\ \E m \in 0..MaxCap, seed \in AgainSeeds : Reenter(m, seed)
    /\ days_worked' = FreshDaysWorked(employees)
    /\ assigned_days' = FreshAssignedDays(employees)
    /\ at_entry' = [days_worked |-> FreshDaysWorked(employees),
                    assigned_days |-> FreshAssignedDays(employees)]

----------------------------------------------------------------------------
(* Specifications *)

\* one schedule() call
Next ==
    \/ Prologue
    \/ ShuffleDeferred
    \/ DeferredStep
    \/ ShufflePrimary
    \/ PrimaryStep
    \/ NextDay
    \/ Phase2Step
    \/ Phase3

Spec == Init /\ [][Next]_vars

\* the single-threaded call runs on until it returns or raises
FairSpec == Spec /\ WF_vars(Next)

\* up to MaxCalls calls on one roster
NextRepeat ==
    \/ Prologue
    \/ ShuffleDeferred
    \/ DeferredStep
    \/ ShufflePrimary
    \/ PrimaryStep
    \/ NextDay
    \/ Phase2Step
    \/ Phase3
    \/ CallAgain
    \/ CallFresh

SpecRepeat == InitRepeat /\ [][NextRepeat]_vars

\* up to MaxCalls calls, all on the same Employee objects
NextReuse ==
    \/ Prologue
    \/ ShuffleDeferred
    \/ DeferredStep
    \/ ShufflePrimary
    \/ PrimaryStep
    \/ NextDay
    \/ Phase2Step
    \/ Phase3
    \/ CallAgain

SpecReuse == InitRepeat /\ [][NextReuse]_vars

\* compute_target_per_shift on its own, as the prologue applies it
NextTarget == Prologue

SpecTarget == InitTarget /\ [][NextTarget]_vars

----------------------------------------------------------------------------
(* Properties *)

\* the employees entered the current call as Employee.__init__ leaves them
EnteredFresh ==
    \A e \in Emps : at_entry.days_worked[e] = 0 /\ at_entry.assigned_days[e] = {}

DistinctNames ==
    \A a, b \in Emps : a # b => employees[a].name # employees[b].name

Slots == DaySet \X ShiftSet

NoDup(seq) == \A i, j \in 1..Len(seq) : i # j => seq[i] # seq[j]

\* the names scheduled on a day, shift after shift
DayNames(day) == sched[day][SHIFTS[1]] \o sched[day][SHIFTS[2]] \o sched[day][SHIFTS[3]]

\* position of a slot in the day-then-shift scan
SlotIndex(day, shift) ==
    Len(SHIFTS) * ((CHOOSE k \in 1..Len(DAYS) : DAYS[k] = day) - 1)
        + (CHOOSE k \in 1..Len(SHIFTS) : SHIFTS[k] = shift)

\* C1: in every state of a call entered with fresh employees and a positive
\* cap, each employee's days_worked equals the number of assigned days and
\* does not exceed max_days_per_week.
C1_DaysWorkedWithinCap ==
    (EnteredFresh /\ max_days_per_week > 0) =>
        \A e \in Emps :
            /\ days_worked[e] = Cardinality(assigned_days[e])
            /\ days_worked[e] <= max_days_per_week

C1_Witness ==
    /\ EnteredFresh
    /\ max_days_per_week > 0
    /\ pc = "returned"
    /\ \E e \in Emps : days_worked[e] = max_days_per_week /\ assigned_days[e] # {}

\* C2: with distinctly named, fresh employees, no name occurs twice in one
\* slot and no name occurs in two shifts of the same day, in any state.
C2_NoDoubleBooking ==
    (DistinctNames /\ EnteredFresh) => \A day \in DaySet : NoDup(DayNames(day))

C2_Witness ==
    /\ DistinctNames
    /\ EnteredFresh
    /\ pc = "returned"
    /\ \E day \in DaySet : Len(sched[day]["morning"]) = 2 /\ Len(sched[day]["afternoon"]) >= 1

\* C3: no step of phase 2 lowers the occupancy of a slot, and when phase 2
\* ends every slot holds at least 2 names or no employee is eligible for
\* its day (each is at the cap or already assigned that day).
C3_TopUpCoverage ==
    [][ /\ pc = "phase2" =>
             \A sl \in Slots : Len(sched'[sl[1]][sl[2]]) >= Len(sched[sl[1]][sl[2]])
        /\ (pc = "phase2" /\ pc' = "phase3") =>
             \A sl \in Slots :
                 \/ Len(sched'[sl[1]][sl[2]]) >= 2
                 \/ \A e \in Emps :
                        \/ days_worked'[e] >= max_days_per_week'
                        \/ sl[1] \in assigned_days'[e] ]_vars

C3_Witness ==
    /\ pc = "phase3"
    /\ \E sl \in Slots : Len(sched[sl[1]][sl[2]]) < 2
    /\ \E sl \in Slots : Len(sched[sl[1]][sl[2]]) >= 2
    /\ \E e \in Emps : days_worked[e] < max_days_per_week

\* the unmet list is exactly the under-filled slots, once each, with their
\* occupancy, in scan order
UnmetExact ==
    /\ \A i \in 1..Len(unmet) :
          /\ <<unmet[i][1], unmet[i][2]>> \in Slots
          /\ unmet[i][3] = Len(sched[unmet[i][1]][unmet[i][2]])
          /\ unmet[i][3] < 2
    /\ \A sl \in Slots :
          Len(sched[sl[1]][sl[2]]) < 2 =>
              Cardinality({i \in 1..Len(unmet) : unmet[i][1] = sl[1] /\ unmet[i][2] = sl[2]}) = 1
    /\ \A i, j \in 1..Len(unmet) :
          i < j => SlotIndex(unmet[i][1], unmet[i][2]) < SlotIndex(unmet[j][1], unmet[j][2])
    /\ (unmet = <<>>) <=> (\A sl \in Slots : Len(sched[sl[1]][sl[2]]) >= 2)

\* C4: phase 3 returns an unmet list holding one tuple (day, shift,
\* occupancy) per slot below 2 and none for any other slot, in scan order,
\* empty exactly when every slot has 2 or more, and it changes neither the
\* schedule nor any employee's state.
C4_UnmetReport ==
    [][ pc = "phase3" =>
            /\ pc' = "returned"
            /\ UnmetExact'
            /\ sched' = sched
            /\ days_worked' = days_worked
            /\ assigned_days' = assigned_days ]_vars

C4_Witness ==
    /\ pc = "returned"
    /\ Len(unmet) > 0
    /\ Len(unmet) < Len(DAYS) * Len(SHIFTS)
    /\ \E i \in 1..Len(unmet) : unmet[i][3] = 1

\* what the current call returns
Result == [sched |-> sched, unmet |-> unmet, target |-> target_per_shift]

\* the current call was given the arguments of the previous one, a seed
\* among them, and met the employees in the state the previous one met
SameInputsAsPrev ==
    /\ calls > 1
    /\ rng_seed.given
    /\ prev.rng_seed = rng_seed
    /\ prev.max_days = max_days_per_week
    /\ prev.at_entry = at_entry

\* C5: a call given the same roster, cap and seed as the call before it,
\* the employees in the same state at entry, returns the same schedule,
\* unmet list and target_per_shift.
C5_Determinism ==
    (pc = "returned" /\ SameInputsAsPrev) => Result = prev.result

C5_Witness ==
    /\ pc = "returned"
    /\ SameInputsAsPrev
    /\ Len(employees) >= 2
    /\ \E sl \in Slots : Len(sched[sl[1]][sl[2]]) = 2
    /\ unmet # <<>>

\* C6: no call raises: the run never leaves schedule() through an exception.
C6_NeverRaises == pc # "raised"

Terminated == pc \in {"returned", "raised"}

\* C7: every call terminates, and a returned schedule has an entry for each
\* of the 7 days and, under it, for each of the 3 shifts.
C7_Terminates ==
    /\ <>Terminated
    /\ [](pc = "returned" =>
            /\ DOMAIN sched = DaySet
            /\ \A d \in DaySet : DOMAIN sched[d] = ShiftSet
            /\ Cardinality(Slots) = 21)

C7_Witness ==
    /\ pc = "returned"
    /\ \E sl \in Slots : Len(sched[sl[1]][sl[2]]) > 0
    /\ \E e \in Emps : days_worked[e] < max_days_per_week

\* C8: the target computed for n employees and cap m is at least 2, equals
\* max(2, floor(n*m / 21)), and is not below the target of any smaller
\* roster under the same cap.
C8_TargetFloorMonotone ==
    pc = "day_start" =>
        LET n == Len(employees)
            m == max_days_per_week
            t == target_per_shift
        IN  /\ t >= 2
            /\ IF n * m < 3 * 21 THEN t = 2
               ELSE 21 * t <= n * m /\ n * m < 21 * (t + 1)
            /\ \A k \in 0..n : compute_target_per_shift(k, m) <= t

C8_Witness ==
    /\ pc = "day_start"
    /\ target_per_shift > 3
    /\ \E k \in 0..Len(employees) :
          compute_target_per_shift(k, max_days_per_week) < target_per_shift

\* the bundled run: the sample roster, fresh, under a cap of 5 and seed 42
IsSampleRun ==
    /\ employees = sample_employees
    /\ max_days_per_week = 5
    /\ rng_seed = Seed(42)
    /\ EnteredFresh

\* C9: the bundled run has target_per_shift = 2 and returns with every one
\* of the 21 slots at 2 or more and an empty unmet list.
C9_SampleRunFullyStaffed ==
    IsSampleRun =>
        /\ pc # "entry" => target_per_shift = 2
        /\ pc = "returned" =>
              /\ \A sl \in Slots : Len(sched[sl[1]][sl[2]]) >= 2
              /\ unmet = <<>>

C9_Witness == IsSampleRun /\ pc = "returned" /\ conflict_queue # <<>>

RECURSIVE SumOccupancy(_)
\* names in the schedule, over the slots from the k-th of the scan on
SumOccupancy(k) ==
    IF k >= Len(DAYS) * Len(SHIFTS) THEN 0
    ELSE Len(sched[DAYS[(k \div Len(SHIFTS)) + 1]][SHIFTS[(k % Len(SHIFTS)) + 1]])
             + SumOccupancy(k + 1)

\* C10: a call on three fresh employees under a cap of 5 returns a
\* non-empty unmet list, having made at most 15 assignments.
C10_ThreeEmployeesUnmet ==
    (Len(employees) = 3 /\ max_days_per_week = 5 /\ EnteredFresh /\ pc = "returned") =>
        /\ unmet # <<>>
        /\ SumOccupancy(0) <= 15

C10_Witness ==
    /\ Len(employees) = 3
    /\ max_days_per_week = 5
    /\ EnteredFresh
    /\ pc = "returned"
    /\ SumOccupancy(0) = 15

\* Scenario C: one fresh employee without preferences under a cap of 1
ScenarioC ==
    /\ Len(employees) = 1
    /\ \A day \in DaySet : ranked_prefs(employees[1], day) = <<>>
    /\ max_days_per_week = 1
    /\ EnteredFresh

\* C11: in Scenario C, once phase 1 is over the employee's name stands in
\* exactly one slot of the week and every other slot is empty; in phase 2
\* no day has a candidate, and the schedule stays so until the return.
C11_ScenarioC ==
    (ScenarioC /\ pc \in {"phase2", "phase3", "returned"}) =>
        /\ \E sl \in Slots :
              /\ sched[sl[1]][sl[2]] = <<employees[1].name>>
              /\ \A other \in Slots \ {sl} : Len(sched[other[1]][other[2]]) = 0
        /\ \A day \in DaySet : candidates(day) = <<>>

C11_Witness ==
    /\ ScenarioC
    /\ pc = "returned"
    /\ days_worked[1] = 1
    /\ \E sl \in Slots : Len(sched[sl[1]][sl[2]]) = 1

\* C12: a call on an empty roster has target_per_shift = 2 and returns a
\* schedule whose 21 slots are all empty and an unmet list of 21 tuples,
\* one (day, shift, 0) for every slot.
C12_EmptyRoster ==
    (Len(employees) = 0 /\ pc = "returned") =>
        /\ target_per_shift = 2
        /\ \A sl \in Slots : sched[sl[1]][sl[2]] = <<>>
        /\ Len(unmet) = 21
        /\ \A sl \in Slots : \E i \in 1..Len(unmet) : unmet[i] = <<sl[1], sl[2], 0>>

C12_Witness ==
    /\ Len(employees) = 0
    /\ pc = "returned"
    /\ max_days_per_week > 0
    /\ Len(unmet) = Len(DAYS) * Len(SHIFTS)

\* C13: over calls on the same Employee objects no step lowers an
\* employee's days_worked or removes a day from assigned_days, the entry
\* of a call leaves both as the previous call left them, and the schedule
\* of a call never names an employee on a day that was in that employee's
\* assigned_days when the call began.
C13_NoResetOnEntry ==
    [][ /\ \A e \in Emps :
              /\ days_worked'[e] >= days_worked[e]
              /\ assigned_days[e] \subseteq assigned_days'[e]
        /\ pc = "entry" =>
              /\ days_worked' = at_entry.days_worked
              /\ assigned_days' = at_entry.assigned_days
        /\ \A e \in Emps : \A day \in at_entry'.assigned_days[e] :
              \A k \in 1..Len(DayNames(day)') : DayNames(day)'[k] # employees[e].name ]_vars

C13_Witness ==
    /\ calls = 2
    /\ pc = "returned"
    /\ \E e \in Emps :
          /\ at_entry.days_worked[e] >= 1
          /\ days_worked[e] > at_entry.days_worked[e]
          /\ at_entry.assigned_days[e] # {}

\* shift s of the day is open for employee e: e is below the cap, free
\* that day, and the slot is below the target
OpenFor(e, day, s) ==
    /\ days_worked[e] < max_days_per_week
    /\ day \notin assigned_days[e]
    /\ Len(sched[day][s]) < target_per_shift

\* s is what the ranking of prefs selects among the shifts open for e:
\* the first entry of prefs that is open, or with none open the first open
\* shift of SHIFTS
BestOpen(e, day, prefs, s) ==
    IF \E i \in 1..Len(prefs) : prefs[i] \in ShiftSet /\ OpenFor(e, day, prefs[i])
    THEN \E i \in 1..Len(prefs) :
            /\ prefs[i] = s
            /\ \A j \in 1..(i - 1) : ~(prefs[j] \in ShiftSet /\ OpenFor(e, day, prefs[j]))
    ELSE \E k \in 1..Len(SHIFTS) :
            /\ SHIFTS[k] = s
            /\ \A j \in 1..(k - 1) : ~OpenFor(e, day, SHIFTS[j])

\* C14: every assignment of phase 1, in the deferred or the primary pass,
\* appends the employee's name to one slot of the current day, a slot open
\* for the employee: that of the highest-ranked preference that is open,
\* or with no ranked preference open the first open shift in the order
\* morning, afternoon, evening.
C14_HighestRankedOpen ==
    [][ (pc \in {"deferred_pass", "primary_pass"} /\ sched' # sched) =>
            LET e == IF pc = "deferred_pass" THEN Head(deferred) ELSE Head(order)
                day == Day(d_idx)
            IN  \E s \in ShiftSet :
                    /\ sched' = [sched EXCEPT ![day][s] = Append(@, employees[e].name)]
                    /\ OpenFor(e, day, s)
                    /\ BestOpen(e, day, employees[e].weekly_prefs[day], s) ]_vars

\* an employee stands in the shift ranked second, the first-ranked being
\* full, and another in a shift the employee did not rank
C14_Witness ==
    /\ pc = "returned"
    /\ \E e \in Emps, day \in DaySet :
          LET prefs == employees[e].weekly_prefs[day]
          IN  /\ Len(prefs) >= 2
              /\ prefs[1] # prefs[2]
              /\ prefs[1] \in ShiftSet /\ prefs[2] \in ShiftSet
              /\ Len(sched[day][prefs[1]]) = target_per_shift
              /\ \E k \in 1..Len(sched[day][prefs[2]]) :
                     sched[day][prefs[2]][k] = employees[e].name
    /\ \E e \in Emps, day \in DaySet, s \in ShiftSet :
          /\ employees[e].weekly_prefs[day] # <<>>
          /\ s \notin Range(employees[e].weekly_prefs[day])
          /\ \E k \in 1..Len(sched[day][s]) : sched[day][s][k] = employees[e].name
    /\ DistinctNames

\* C15: in every state of a call, from entry to return, no slot holds more
\* names than target_per_shift.
C15_OccupancyWithinTarget ==
    \A sl \in Slots : Len(sched[sl[1]][sl[2]]) <= target_per_shift

\* the three shifts of the current day stand at the target and an
\* employee has been turned away to the next day
C15_Witness ==
    /\ pc = "primary_pass"
    /\ target_per_shift = 2
    /\ \A s \in ShiftSet : Len(sched[Day(d_idx)][s]) = target_per_shift
    /\ QueueGet(d_idx + 1) # <<>>

\* C16: no employee occurs twice in the deferral queue of a day.
C16_QueueIsSet ==
    \A k \in DOMAIN conflict_queue : NoDup(conflict_queue[k])

\* C17: when a day after Monday starts, no employee queued for it has a
\* shift on the day before, and the queue has no entry for a day index
\* past Sunday.
C17_QueuedOnlyIfUnplaced ==
    /\ (pc = "day_start" /\ d_idx >= 1) =>
          \A k \in 1..Len(QueueGet(d_idx)) :
              Day(d_idx - 1) \notin assigned_days[QueueGet(d_idx)[k]]
    /\ \A k \in DOMAIN conflict_queue : k < Len(DAYS)

\* C19: phase 2 changes nothing: in each of its states every slot below 2
\* belongs to a day without candidates, and none of its steps alters the
\* schedule, an employee's days_worked or assigned_days, or draws from
\* the generator.
C19_Phase2NeverAssigns ==
    [][ pc = "phase2" =>
            /\ \A sl \in Slots :
                  Len(sched[sl[1]][sl[2]]) < 2 => candidates(sl[1]) = <<>>
            /\ sched' = sched
            /\ days_worked' = days_worked
            /\ assigned_days' = assigned_days
            /\ rng' = rng ]_vars

\* phase 2 stands at the last slot of the week, a slot below 2, with an
\* employee still below the cap
C19_Witness ==
    /\ pc = "phase2"
    /\ d_idx = Len(DAYS) - 1
    /\ s_idx = Len(SHIFTS) - 1
    /\ Len(sched[Day(d_idx)][SHIFTS[s_idx + 1]]) < 2
    /\ \E e \in Emps : days_worked[e] > 0 /\ days_worked[e] < max_days_per_week

\* C20: when the primary pass of a day has run through its order, either
\* every shift of the day stands at the target or every employee is at the
\* cap or has a shift that day; and whenever phase 1 queues an employee for
\* the next day, no shift of the current day is open for that employee.
C20_WorkConserving ==
    [][ /\ (pc' = "primary_pass" /\ order' = <<>>) =>
              \/ \A s \in ShiftSet : Len(sched'[Day(d_idx')][s]) >= target_per_shift'
              \/ \A e \in Emps :
                     \/ days_worked'[e] >= max_days_per_week'
                     \/ Day(d_idx') \in assigned_days'[e]
        /\ (pc \in {"deferred_pass", "primary_pass"} /\ conflict_queue' # conflict_queue) =>
              LET e == IF pc = "deferred_pass" THEN Head(deferred) ELSE Head(order)
              IN  /\ QueueGet(d_idx + 1)' = Append(QueueGet(d_idx + 1), e)
                  /\ \A s \in ShiftSet : ~OpenFor(e, Day(d_idx), s) ]_vars

\* the pass is over with a shift of the day below the target, one
\* employee placed that day and another at the cap without a shift that day
C20_Witness ==
    /\ pc = "primary_pass"
    /\ order = <<>>
    /\ \E s \in ShiftSet : Len(sched[Day(d_idx)][s]) < target_per_shift
    /\ \E e \in Emps : Day(d_idx) \in assigned_days[e]
    /\ \E e \in Emps : days_worked[e] >= max_days_per_week /\ Day(d_idx) \notin assigned_days[e]
    /\ max_days_per_week > 0

====
